---------------------------- MODULE Spec2Model ----------------------------
(***************************************************************************)
(* A model of forth_mini.c: the data stack, the dictionary of words, the   *)
(* tagged literal / word-pointer encoding of compiled bodies, the          *)
(* compiler (colon, semicolon, end_compile) and the interpreter loop.      *)
(*                                                                         *)
(* A token is a sequence of one-character strings, so that strtol and      *)
(* strcasecmp are computed as the C library computes them.  A line is the  *)
(* sequence of its whitespace-separated tokens.                            *)
(***************************************************************************)
EXTENDS Integers, Sequences, FiniteSets, TLC

(***************************************************************************)
(* Program constants.                                                      *)
(***************************************************************************)
STACK_SIZE == 256

WORD_SIZE == 32

INITIAL_COMPILE_SIZE == 64

(***************************************************************************)
(* Bounds of the model.  The machine int is INT_BITS wide (32 in a real    *)
(* build; every width below is derived from it, so arithmetic wraps the    *)
(* way it does at 32).  The native call stack holds native_frames nested   *)
(* execute_word calls before the process is killed: DeepFrames of them     *)
(* (more than the data stack has cells) or, where the depth of recursion   *)
(* is not what is looked at, ShallowFrames.                                *)
(***************************************************************************)
INT_BITS == 4

DeepFrames == 300

ShallowFrames == 4

MaxLine == 2

MaxWords == 2

MaxBody == 1

MaxDepth == 1

(***************************************************************************)
(* Machine integers.                                                       *)
(***************************************************************************)
Pow2(n) == 2 ^ n

\* the value of x in a two's complement integer of the given width
Wrap(x, bits) == ((x + Pow2(bits - 1)) % Pow2(bits)) - Pow2(bits - 1)

INT_MAX == Pow2(INT_BITS - 1) - 1

INT_MIN == -Pow2(INT_BITS - 1)

\* (int) x
ToInt(x) == Wrap(x, INT_BITS)

Abs(x) == IF x < 0 THEN -x ELSE x

\* a / b and a % b of C: the quotient truncates toward zero
CDiv(a, b) == IF (a < 0) = (b < 0) THEN Abs(a) \div Abs(b) ELSE -(Abs(a) \div Abs(b))

CRem(a, b) == a - b * CDiv(a, b)

RECURSIVE BitAnd(_, _, _)
\* a & b on non-negative a, b of n bits
BitAnd(a, b, n) ==
    IF n = 0 THEN 0
    ELSE 2 * BitAnd(a \div 2, b \div 2, n - 1) + (IF a % 2 = 1 /\ b % 2 = 1 THEN 1 ELSE 0)

RECURSIVE BitOr(_, _, _)
BitOr(a, b, n) ==
    IF n = 0 THEN 0
    ELSE 2 * BitOr(a \div 2, b \div 2, n - 1) + (IF a % 2 = 1 \/ b % 2 = 1 THEN 1 ELSE 0)

Unsigned(x) == x % Pow2(INT_BITS)

IntAnd(a, b) == ToInt(BitAnd(Unsigned(a), Unsigned(b), INT_BITS))

IntOr(a, b) == ToInt(BitOr(Unsigned(a), Unsigned(b), INT_BITS))

(***************************************************************************)
(* Characters and the C library's string functions.                        *)
(***************************************************************************)
UpperCase == <<"A","B","C","D","E","F","G","H","I","J","K","L","M",
               "N","O","P","Q","R","S","T","U","V","W","X","Y","Z">>

LowerCase == <<"a","b","c","d","e","f","g","h","i","j","k","l","m",
               "n","o","p","q","r","s","t","u","v","w","x","y","z">>

Digits == <<"0","1","2","3","4","5","6","7","8","9">>

tolower(c) ==
    IF \E i \in 1..26 : UpperCase[i] = c
    THEN LowerCase[CHOOSE i \in 1..26 : UpperCase[i] = c]
    ELSE c

\* strcasecmp(a, b) == 0
strcasecmp_eq(a, b) ==
    /\ Len(a) = Len(b)
    /\ \A i \in 1..Len(a) : tolower(a[i]) = tolower(b[i])

isdigit(c) == \E i \in 1..10 : Digits[i] = c

DigitVal(c) == (CHOOSE i \in 1..10 : Digits[i] = c) - 1

\* the digits of a token after its optional sign
DigitPart(word) ==
    IF Len(word) > 0 /\ word[1] \in {"+", "-"} THEN Tail(word) ELSE word

\* strtol(word, &endptr, 10) leaves *endptr == '\0': an optional sign and
\* then one digit or more, up to the end of the token
IsNumber(word) ==
    /\ Len(DigitPart(word)) > 0
    /\ \A i \in 1..Len(DigitPart(word)) : isdigit(DigitPart(word)[i])

RECURSIVE Magnitude(_, _)
\* the digits read left to right, stopping at the cap (strtol saturates)
Magnitude(ds, cap) ==
    IF ds = <<>> THEN 0
    ELSE LET hi == Magnitude(SubSeq(ds, 1, Len(ds) - 1), cap)
             v  == hi * 10 + DigitVal(ds[Len(ds)])
         IN  IF v > cap THEN cap ELSE v

\* the long that strtol returns for a numeric token: LONG_MAX or LONG_MIN
\* when the value is out of range
strtol(word, long_bits) ==
    IF Len(word) > 0 /\ word[1] = "-"
    THEN -Magnitude(DigitPart(word), Pow2(long_bits - 1))
    ELSE Magnitude(DigitPart(word), Pow2(long_bits - 1) - 1)


(***************************************************************************)
(* The program's state.                                                    *)
(*   stack            the live cells stack[0..sp-1] of the data stack      *)
(*   dictionary       the linked list of words, oldest first: the list's   *)
(*                    head is the last element, and a Word* is an index    *)
(*   current_word     the word being defined (0 is NULL)                   *)
(*   compiling, compile_buffer, compile_pos, compile_size                  *)
(*   input, input_ptr the tokens of the line, and the first one not read   *)
(*   out              what the process has printed since the line was read *)
(*   frames           the execute_word calls in progress, innermost last:  *)
(*                    the word w and the index i of its loop               *)
(*   pc               "prompt" (main waits in fgets), "interpret" (inside  *)
(*                    interpret), "exited" (exit(1)), "killed" (a signal   *)
(*                    ended the process), "done" (main returned)           *)
(*   long_bits        the width of long in the build                       *)
(*   native_frames    the nested calls the native stack has room for       *)
(***************************************************************************)
VARIABLES stack, dictionary, current_word, compiling, compile_buffer,
          compile_pos, compile_size, input, input_ptr, out, frames, pc,
          long_bits, native_frames, rstack

vars == <<stack, dictionary, current_word, compiling, compile_buffer,
          compile_pos, compile_size, input, input_ptr, out, frames, pc,
          long_bits, native_frames, rstack>>

\* rstack is the return stack: rpush and rpop are defined and never called

\* a void** is NULL or points to an array of cells
NULL == [null |-> TRUE, items |-> <<>>]

Array(items) == [null |-> FALSE, items |-> items]

\* a void* cell of a body: the address of a Word, or an integer
WordPtr(w) == <<"ptr", w>>

IntCell(v) == <<"int", v>>

\* (uintptr_t)val & 1: malloc returns aligned addresses, whose low bit is 0
LowBit(val) == IF val[1] = "ptr" THEN 0 ELSE val[2] % 2

(***************************************************************************)
(* The machine the functions act on: the program's state, the value the    *)
(* last pop returned, and how this step's undefined behaviour turns out    *)
(* (oob: the int found outside the stack array; trap: whether the CPU      *)
(* traps a division it cannot do; ub: undefined behaviour was executed).   *)
(***************************************************************************)
Machine(g, tr) ==
    [stack |-> stack, dictionary |-> dictionary, current_word |-> current_word,
     compiling |-> compiling, compile_buffer |-> compile_buffer,
     compile_pos |-> compile_pos, compile_size |-> compile_size,
     input |-> input, input_ptr |-> input_ptr, out |-> out,
     frames |-> frames, pc |-> pc, long_bits |-> long_bits,
     native_frames |-> native_frames, rstack |-> rstack,
     ret |-> 0, oob |-> g, trap |-> tr, ub |-> FALSE]

sp(m) == Len(m.stack)

printf(m, line) == [m EXCEPT !.out = Append(@, line)]

exit1(m) == [m EXCEPT !.pc = "exited"]

\* a signal (SIGFPE, SIGSEGV) ends the process; the program prints nothing
kill(m) == [m EXCEPT !.pc = "killed"]

Running(m) == m.pc = "interpret"

(***************************************************************************)
(* Stack operations.                                                       *)
(***************************************************************************)
\* a push that takes the last cell of the array to be past its end
push_early(m, val) ==
    IF ~Running(m) THEN m
    ELSE IF sp(m) >= STACK_SIZE - 1
         THEN exit1(printf(m, <<"Stack overflow!\n">>))
         ELSE [m EXCEPT !.stack = Append(@, val)]

\* a pop that returns the oldest value
pop_oldest(m) ==
    IF ~Running(m) THEN m
    ELSE IF sp(m) <= 0
         THEN exit1(printf(m, <<"Stack underflow!\n">>))
         ELSE [m EXCEPT !.ret = m.stack[1],
                        !.stack = SubSeq(@, 1, Len(@) - 1)]

push(m, val) ==
    IF ~Running(m) THEN m
    ELSE IF sp(m) >= STACK_SIZE
         THEN exit1(printf(m, <<"Stack overflow!\n">>))
         ELSE [m EXCEPT !.stack = Append(@, val)]

\* the popped value is left in ret
pop(m) ==
    IF ~Running(m) THEN m
    ELSE IF sp(m) <= 0
         THEN exit1(printf(m, <<"Stack underflow!\n">>))
         ELSE [m EXCEPT !.ret = m.stack[Len(m.stack)],
                        !.stack = SubSeq(@, 1, Len(@) - 1)]

(***************************************************************************)
(* Primitive words.                                                        *)
(***************************************************************************)
\* int b = pop(); int a = pop(); push(f(a, b));
Binary(m, f(_, _)) ==
    LET m1 == pop(m)
        m2 == pop(m1)
    IN  push(m2, f(m2.ret, m1.ret))

Plus(a, b) == ToInt(a + b)

Minus(a, b) == ToInt(a - b)

Times(a, b) == ToInt(a * b)

add(m) == Binary(m, Plus)

sub(m) == Binary(m, Minus)

mul(m) == Binary(m, Times)

\* a / b and a % b are undefined for b == 0 and for INT_MIN / -1: the CPU
\* traps (x86), or the instruction yields some value and execution continues
DivisionUndefined(a, b) == b = 0 \/ (a = INT_MIN /\ b = -1)

Division(m, f(_, _)) ==
    LET m1 == pop(m)
        m2 == pop(m1)
        a  == m2.ret
        b  == m1.ret
    IN  IF ~Running(m2) THEN m2
        ELSE IF DivisionUndefined(a, b)
             THEN IF m.trap THEN kill([m2 EXCEPT !.ub = TRUE])
                  ELSE push([m2 EXCEPT !.ub = TRUE], m.oob)
             ELSE push(m2, f(a, b))

divide(m) == Division(m, CDiv)

mod(m) == Division(m, CRem)

\* int a = stack[sp-1]; push(a);   with sp == 0 the read is of stack[-1]
dup(m) ==
    IF ~Running(m) THEN m
    ELSE IF sp(m) - 1 >= 0
         THEN push(m, m.stack[sp(m)])
         ELSE push([m EXCEPT !.ub = TRUE], m.oob)

drop(m) == pop(m)

swap(m) ==
    LET m1 == pop(m)
        m2 == pop(m1)
    IN  push(push(m2, m1.ret), m2.ret)

over(m) ==
    LET m1 == pop(m)
        m2 == pop(m1)
    IN  push(push(push(m2, m2.ret), m1.ret), m2.ret)

rot(m) ==
    LET m1 == pop(m)
        m2 == pop(m1)
        m3 == pop(m2)
    IN  push(push(push(m3, m2.ret), m1.ret), m3.ret)

emit(m) ==
    LET m1 == pop(m)
    IN  IF Running(m1) THEN printf(m1, <<"%c", m1.ret>>) ELSE m1

cr(m) == IF Running(m) THEN printf(m, <<"\n">>) ELSE m

dot(m) ==
    LET m1 == pop(m)
    IN  IF Running(m1) THEN printf(m1, <<"%d ", m1.ret>>) ELSE m1

dots(m) ==
    IF ~Running(m) THEN m
    ELSE [m EXCEPT !.out = @ \o << <<"<sp=%d> ", sp(m)>> >>
                           \o [i \in 1..sp(m) |-> <<"%d ", m.stack[i]>>]
                           \o << <<"\n">> >>]

Equal(a, b) == IF a = b THEN -1 ELSE 0

\* a comparison that yields C's truth value
Less_flag(a, b) == IF a < b THEN 1 ELSE 0

Less(a, b) == IF a < b THEN -1 ELSE 0

Greater(a, b) == IF a > b THEN -1 ELSE 0

eq(m) == Binary(m, Equal)

lt(m) == Binary(m, Less)

gt(m) == Binary(m, Greater)

and(m) == Binary(m, IntAnd)

or(m) == Binary(m, IntOr)

\* push(~pop());
not(m) ==
    LET m1 == pop(m)
    IN  push(m1, -m1.ret - 1)

(***************************************************************************)
(* Dictionary operations.                                                  *)
(***************************************************************************)
\* strncpy(w->name, name, WORD_SIZE-1); w->name[WORD_SIZE-1] = '\0';
strncpy(name) == SubSeq(name, 1, IF Len(name) < WORD_SIZE - 1 THEN Len(name) ELSE WORD_SIZE - 1)

Word(name, code, immediate) ==
    [name |-> strncpy(name), is_immediate |-> immediate, code |-> code,
     data |-> NULL, data_len |-> 0]

\* a scan that starts at the tail of the list returns the oldest match
find_word_oldest(dict, name) ==
    LET matches == {w \in 1..Len(dict) : strcasecmp_eq(dict[w].name, name)}
    IN  IF matches = {} THEN 0
        ELSE CHOOSE w \in matches : \A v \in matches : w <= v

\* the first match from the head of the list (the newest word), or 0
find_word(dict, name) ==
    LET matches == {w \in 1..Len(dict) : strcasecmp_eq(dict[w].name, name)}
    IN  IF matches = {} THEN 0
        ELSE CHOOSE w \in matches : \A v \in matches : v <= w

\* w->next = dictionary; dictionary = w;
add_word(dict, name, code, immediate) == Append(dict, Word(name, code, immediate))

(***************************************************************************)
(* Compilation.                                                            *)
(***************************************************************************)
start_compile(m) ==
    [m EXCEPT !.compile_size = INITIAL_COMPILE_SIZE,
              !.compile_buffer = Array(<<>>),
              !.compile_pos = 0,
              !.compiling = 1]

compile_item(m, val) ==
    LET m1 == IF m.compile_pos >= m.compile_size
              THEN [m EXCEPT !.compile_size = 2 * @]
              ELSE m
    IN  [m1 EXCEPT !.compile_buffer = Array(Append(m.compile_buffer.items, val)),
                   !.compile_pos = @ + 1]

\* an end_compile that leaves current_word set
end_compile_keep_target(m) ==
    LET m1 == IF m.current_word # 0
              THEN [m EXCEPT !.dictionary[m.current_word].data = m.compile_buffer,
                             !.dictionary[m.current_word].data_len = m.compile_pos]
              ELSE m
    IN  [m1 EXCEPT !.compile_buffer = NULL,
                   !.compile_pos = 0,
                   !.compile_size = 0,
                   !.compiling = 0]

end_compile(m) ==
    LET m1 == IF m.current_word # 0
              THEN [m EXCEPT !.dictionary[m.current_word].data = m.compile_buffer,
                             !.dictionary[m.current_word].data_len = m.compile_pos]
              ELSE m
    IN  [m1 EXCEPT !.compile_buffer = NULL,
                   !.compile_pos = 0,
                   !.compile_size = 0,
                   !.compiling = 0,
                   !.current_word = 0]

\* sscanf(input_ptr, "%s", name) == 1: a token is left on the line
TokenLeft(m) == m.input_ptr <= Len(m.input)

\* a colon that redefines a compiled word in place
colon_redefine(m) ==
    IF ~Running(m) THEN m
    ELSE IF ~TokenLeft(m)
         THEN printf(m, <<"Error: expected word name after ':'\n">>)
         ELSE LET name == m.input[m.input_ptr]
                  w    == find_word(m.dictionary, name)
                  m1   == IF w # 0 /\ m.dictionary[w].code = "NULL"
                          THEN [m EXCEPT !.input_ptr = @ + 1,
                                         !.dictionary[w].data = NULL,
                                         !.dictionary[w].data_len = 0,
                                         !.current_word = w]
                          ELSE [m EXCEPT !.input_ptr = @ + 1,
                                         !.dictionary = add_word(@, name, "NULL", 0),
                                         !.current_word = Len(m.dictionary) + 1]
              IN  start_compile(m1)

colon(m) ==
    IF ~Running(m) THEN m
    ELSE IF ~TokenLeft(m)
         THEN printf(m, <<"Error: expected word name after ':'\n">>)
         ELSE LET name == m.input[m.input_ptr]
                  m1   == [m EXCEPT !.input_ptr = @ + 1,
                                    !.dictionary = add_word(@, name, "NULL", 0),
                                    !.current_word = Len(m.dictionary) + 1]
              IN  start_compile(m1)

semicolon(m) ==
    IF ~Running(m) THEN m
    ELSE IF m.compiling = 0
         THEN printf(m, <<"Error: ';' outside definition\n">>)
         ELSE end_compile(m)

(***************************************************************************)
(* execute_word.                                                           *)
(***************************************************************************)
\* w->code()
CallCode(m, code) ==
    CASE code = "add"       -> add(m)
      [] code = "sub"       -> sub(m)
      [] code = "mul"       -> mul(m)
      [] code = "divide"    -> divide(m)
      [] code = "mod"       -> mod(m)
      [] code = "dup"       -> dup(m)
      [] code = "drop"      -> drop(m)
      [] code = "swap"      -> swap(m)
      [] code = "over"      -> over(m)
      [] code = "rot"       -> rot(m)
      [] code = "emit"      -> emit(m)
      [] code = "cr"        -> cr(m)
      [] code = "dot"       -> dot(m)
      [] code = "dots"      -> dots(m)
      [] code = "eq"        -> eq(m)
      [] code = "lt"        -> lt(m)
      [] code = "gt"        -> gt(m)
      [] code = "and"       -> and(m)
      [] code = "or"        -> or(m)
      [] code = "not"       -> not(m)
      [] code = "colon"     -> colon(m)
      [] code = "semicolon" -> semicolon(m)

\* int num = (int)((intptr_t)val >> 1);
DecodeNumber(val) == ToInt(val[2] \div 2)

\* the call execute_word(w): a primitive runs to its end; for a compiled
\* word the loop over its body starts.  Each call in progress holds a frame
\* of the native stack, and the process is killed when that is exhausted
execute_word(m, w) ==
    IF ~Running(m) THEN m
    ELSE IF Len(m.frames) >= m.native_frames THEN kill(m)
    ELSE IF m.dictionary[w].code # "NULL" THEN CallCode(m, m.dictionary[w].code)
    ELSE IF ~m.dictionary[w].data.null
         THEN [m EXCEPT !.frames = Append(@, [w |-> w, i |-> 0])]
    ELSE m

\* one pass of the loop of the innermost execute_word, or its return
execute_step(m) ==
    LET n == Len(m.frames)
        w == m.frames[n].w
        i == m.frames[n].i
    IN  IF ~(i < m.dictionary[w].data_len)
        THEN [m EXCEPT !.frames = SubSeq(@, 1, n - 1)]
        ELSE LET val == m.dictionary[w].data.items[i + 1]
                 m1  == [m EXCEPT !.frames[n].i = i + 1]
             IN  IF LowBit(val) = 1
                 THEN push(m1, DecodeNumber(val))
                 ELSE execute_word(m1, val[2])

(***************************************************************************)
(* The interpreter loop: one pass of the while loop of interpret.          *)
(***************************************************************************)
\* void *tagged = (void*)((intptr_t)(num << 1) | 1);   num << 1 is a long
TagNumber(num, lbits) == IntCell(Wrap(num * 2, lbits) + 1)

\* the token is a number: compiled as a tagged cell, or pushed
interpret_number(m, word) ==
    LET num == strtol(word, m.long_bits)
    IN  IF m.compiling # 0
        THEN compile_item(m, TagNumber(num, m.long_bits))
        ELSE push(m, ToInt(num))

\* an interpreter in which ":" is executed while compiling too
interpret_found_defining(m, w) ==
    IF /\ m.compiling # 0 /\ m.dictionary[w].is_immediate = 0
       /\ m.dictionary[w].code # "colon"
    THEN compile_item(m, WordPtr(w))
    ELSE execute_word(m, w)

\* the token is in the dictionary: compiled as a word pointer, or executed
interpret_found(m, w) ==
    IF m.compiling # 0 /\ m.dictionary[w].is_immediate = 0
    THEN compile_item(m, WordPtr(w))
    ELSE execute_word(m, w)

\* an interpreter that reports the unknown token and reads on
interpret_unknown_no_return(m, word) ==
    LET m1 == printf(m, <<"Unknown word: %s\n", word>>)
    IN  IF m.compiling # 0 THEN end_compile(m1) ELSE m1

\* the token is unknown: interpret returns to main
interpret_unknown(m, word) ==
    LET m1 == printf(m, <<"Unknown word: %s\n", word>>)
        m2 == IF m.compiling # 0 THEN end_compile(m1) ELSE m1
    IN  [m2 EXCEPT !.pc = "prompt"]

\* an interpreter that closes the definition being compiled at the line's end
interpret_token_one_line(m) ==
    IF ~TokenLeft(m)
    THEN IF m.compiling # 0 THEN end_compile([m EXCEPT !.pc = "prompt"])
         ELSE [m EXCEPT !.pc = "prompt"]
    ELSE LET word == m.input[m.input_ptr]
             m1   == [m EXCEPT !.input_ptr = @ + 1]
             w    == find_word(m.dictionary, word)
         IN  IF IsNumber(word) THEN interpret_number(m1, word)
             ELSE IF w # 0 THEN interpret_found(m1, w)
             ELSE interpret_unknown(m1, word)

\* an interpreter that looks the token up before trying it as a number
interpret_token_lookup_first(m) ==
    IF ~TokenLeft(m) THEN [m EXCEPT !.pc = "prompt"]
    ELSE LET word == m.input[m.input_ptr]
             m1   == [m EXCEPT !.input_ptr = @ + 1]
             w    == find_word(m.dictionary, word)
         IN  IF w # 0 THEN interpret_found(m1, w)
             ELSE IF IsNumber(word) THEN interpret_number(m1, word)
             ELSE interpret_unknown(m1, word)

interpret_token(m) ==
    IF ~TokenLeft(m) THEN [m EXCEPT !.pc = "prompt"]
    ELSE LET word == m.input[m.input_ptr]
             m1   == [m EXCEPT !.input_ptr = @ + 1]
             w    == find_word(m.dictionary, word)
         IN  IF IsNumber(word) THEN interpret_number(m1, word)
             ELSE IF w # 0 THEN interpret_found(m1, w)
             ELSE interpret_unknown(m1, word)

\* what the process does next: inside execute_word, or in interpret's loop
step(m) == IF m.frames # <<>> THEN execute_step(m) ELSE interpret_token(m)

(***************************************************************************)
(* init_forth.                                                             *)
(***************************************************************************)
Primitives ==
    << <<<<"+">>, "add", 0>>,              <<<<"-">>, "sub", 0>>,
       <<<<"*">>, "mul", 0>>,              <<<<"/">>, "divide", 0>>,
       <<<<"M","O","D">>, "mod", 0>>,      <<<<"D","U","P">>, "dup", 0>>,
       <<<<"D","R","O","P">>, "drop", 0>>, <<<<"S","W","A","P">>, "swap", 0>>,
       <<<<"O","V","E","R">>, "over", 0>>, <<<<"R","O","T">>, "rot", 0>>,
       <<<<"E","M","I","T">>, "emit", 0>>, <<<<"C","R">>, "cr", 0>>,
       <<<<".">>, "dot", 0>>,              <<<<".","S">>, "dots", 0>>,
       <<<<"=">>, "eq", 0>>,               <<<<"<">>, "lt", 0>>,
       <<<<">">>, "gt", 0>>,               <<<<"A","N","D">>, "and", 0>>,
       <<<<"O","R">>, "or", 0>>,           <<<<"N","O","T">>, "not", 0>>,
       <<<<":">>, "colon", 0>>,            <<<<";">>, "semicolon", 1>> >>

init_forth == [i \in 1..Len(Primitives) |->
                  Word(Primitives[i][1], Primitives[i][2], Primitives[i][3])]

(***************************************************************************)
(* Steps of the program.                                                   *)
(***************************************************************************)
\* what undefined behaviour may read or yield
Garbage == {0, INT_MAX}

Becomes(m) ==
    /\ stack' = m.stack
    /\ dictionary' = m.dictionary
    /\ current_word' = m.current_word
    /\ compiling' = m.compiling
    /\ compile_buffer' = m.compile_buffer
    /\ compile_pos' = m.compile_pos
    /\ compile_size' = m.compile_size
    /\ input' = m.input
    /\ input_ptr' = m.input_ptr
    /\ out' = m.out
    /\ frames' = m.frames
    /\ pc' = m.pc
    /\ long_bits' = m.long_bits
    /\ native_frames' = m.native_frames
    /\ rstack' = m.rstack

\* every way one pass of the loop of interpret can turn out
Outcomes ==
    LET defined == {step(m) : m \in {Machine(0, FALSE)}}
    IN  IF \A first \in defined : ~first.ub THEN defined
        ELSE {step(m) : m \in {Machine(g, tr) : g \in Garbage, tr \in BOOLEAN}}

Word0 == input[input_ptr]

\* the dictionary is small enough, and the stack low enough, to go on
Within(words, body, depth) ==
    /\ Len(dictionary) - Len(Primitives) <= words
    /\ compile_pos <= body
    /\ \A w \in 1..Len(dictionary) : dictionary[w].data_len <= body
    /\ Len(stack) <= depth

\* main: fgets returns a line, which is not the line "exit"; interpret(input)
ReadLine(Lines) ==
    /\ pc = "prompt"
    /\ \E line \in Lines :
          /\ input' = line
          /\ input_ptr' = 1
    /\ out' = <<>>
    /\ pc' = "interpret"
    /\ UNCHANGED <<stack, dictionary, current_word, compiling, compile_buffer,
                   compile_pos, compile_size, frames, long_bits,
                   native_frames, rstack>>

\* main: fgets fails, or the line is "exit"
Quit ==
    /\ pc = "prompt"
    /\ pc' = "done"
    /\ UNCHANGED <<stack, dictionary, current_word, compiling, compile_buffer,
                   compile_pos, compile_size, input, input_ptr, out, frames,
                   long_bits, native_frames, rstack>>

\* interpret: sscanf finds no token, the loop ends
InterpretReturn ==
    /\ pc = "interpret"
    /\ frames = <<>>
    /\ input_ptr > Len(input)
    /\ \E m \in Outcomes : Becomes(m)

\* interpret: the token is a number
InterpretNumber ==
    /\ pc = "interpret"
    /\ frames = <<>>
    /\ input_ptr <= Len(input)
    /\ IsNumber(Word0)
    /\ \E m \in Outcomes : Becomes(m)

\* interpret: the token is a word that is compiled
InterpretCompile ==
    /\ pc = "interpret"
    /\ frames = <<>>
    /\ input_ptr <= Len(input)
    /\ ~IsNumber(Word0)
    /\ find_word(dictionary, Word0) # 0
    /\ compiling # 0 /\ dictionary[find_word(dictionary, Word0)].is_immediate = 0
    /\ \E m \in Outcomes : Becomes(m)

\* interpret: the token is a word that is executed
InterpretExecute ==
    /\ pc = "interpret"
    /\ frames = <<>>
    /\ input_ptr <= Len(input)
    /\ ~IsNumber(Word0)
    /\ find_word(dictionary, Word0) # 0
    /\ ~(compiling # 0 /\ dictionary[find_word(dictionary, Word0)].is_immediate = 0)
    /\ \E m \in Outcomes : Becomes(m)

\* interpret: the token is unknown
InterpretUnknown ==
    /\ pc = "interpret"
    /\ frames = <<>>
    /\ input_ptr <= Len(input)
    /\ ~IsNumber(Word0)
    /\ find_word(dictionary, Word0) = 0
    /\ \E m \in Outcomes : Becomes(m)

\* execute_word: one pass of the loop over a compiled body, or the return
ExecuteStep ==
    /\ pc = "interpret"
    /\ frames # <<>>
    /\ \E m \in Outcomes : Becomes(m)

\* the lines of up to n tokens over an alphabet
LinesOver(toks, n) == UNION {[1..k -> toks] : k \in 0..n}

\* the state main is in at the prompt, with nothing being compiled
Started(stacks, widths, depths) ==
    /\ stack \in stacks
    /\ dictionary = init_forth
    /\ current_word = 0
    /\ compiling = 0
    /\ compile_buffer = NULL
    /\ compile_pos = 0
    /\ compile_size = 0
    /\ input = <<>>
    /\ input_ptr = 1
    /\ out = <<>>
    /\ frames = <<>>
    /\ pc = "prompt"
    /\ long_bits \in widths
    /\ native_frames \in depths
    /\ rstack = <<>>

\* the state main starts the loop in
Start(widths, depths) == Started({<<>>}, widths, depths)

\* the widths of long: that of int (ILP32, LLP64) or twice that (LP64)
LongWidths == {INT_BITS, 2 * INT_BITS}

(***************************************************************************)
(* Tokens.                                                                 *)
(***************************************************************************)
COLON == <<":">>

SEMICOLON == <<";">>

DUP == <<"D","U","P">>

DROP == <<"D","R","O","P">>

DOT == <<".">>

SLASH == <<"/">>

MOD == <<"M","O","D">>

(***************************************************************************)
(* Spec: the interpreter on every line of up to MaxLine tokens over an     *)
(* alphabet with the defining words, two names and a literal.  Any token   *)
(* may follow ":" as a name, and a definition may span lines.              *)
(***************************************************************************)
Tokens == {COLON, SEMICOLON, <<"F">>, <<"G">>, <<"7">>}

Init == Start(LongWidths, {ShallowFrames})

Next ==
    \/ (Within(MaxWords, MaxBody, MaxDepth) /\ ReadLine(LinesOver(Tokens, MaxLine)))
    \/ Quit
    \/ InterpretReturn
    \/ InterpretNumber
    \/ InterpretCompile
    \/ InterpretExecute
    \/ InterpretUnknown
    \/ ExecuteStep

Spec == Init /\ [][Next]_vars

\* the same lines on the build whose long is twice as wide as int
InitWide == Start({2 * INT_BITS}, {ShallowFrames})

SpecWide == InitWide /\ [][Next]_vars

(***************************************************************************)
(* SpecShadow: whole definitions ": N body ;" of the names F and G, and    *)
(* lines that invoke a name in either letter case.                         *)
(***************************************************************************)
ShadowNames == {<<"F">>, <<"G">>}

ShadowBodyTokens == {<<"F">>, <<"f">>, <<"G">>, <<"1">>, <<"2">>}

ShadowLines ==
    {<<COLON, n>> \o b \o <<SEMICOLON>> :
        n \in ShadowNames, b \in LinesOver(ShadowBodyTokens, MaxBody)}
    \cup {<<t>> : t \in {<<"F">>, <<"f">>, <<"G">>, <<"g">>}}

InitShadow == Start({2 * INT_BITS}, {ShallowFrames})

NextShadow ==
    \/ (Within(MaxWords + 1, MaxBody, MaxDepth) /\ ReadLine(ShadowLines))
    \/ Quit
    \/ InterpretReturn
    \/ InterpretNumber
    \/ InterpretCompile
    \/ InterpretExecute
    \/ InterpretUnknown
    \/ ExecuteStep

SpecShadow == InitShadow /\ [][NextShadow]_vars

(***************************************************************************)
(* SpecPrim: lines of numbers and primitive words, no definitions.         *)
(***************************************************************************)
PrimTokens ==
    ({Primitives[i][1] : i \in 1..Len(Primitives)} \ {COLON, SEMICOLON})
        \cup {<<"0">>, <<"-","8">>, <<"-","1">>}

InitPrim == Start(LongWidths, {ShallowFrames})

NextPrim ==
    \/ (Within(0, 0, MaxDepth) /\ ReadLine(LinesOver(PrimTokens, MaxLine)))
    \/ Quit
    \/ InterpretReturn
    \/ InterpretNumber
    \/ InterpretExecute

SpecPrim == InitPrim /\ [][NextPrim]_vars

(***************************************************************************)
(* Words whose bodies execute ":".  The lines are whole definitions of A   *)
(* with ":" and numbers in the body, and lines that invoke A with or       *)
(* without names after it.                                                 *)
(***************************************************************************)
ColonBodyTokens == {COLON, <<"5">>}

ColonLineTokens == {<<"A">>, <<"B">>, SEMICOLON}

ColonLines ==
    {<<COLON, <<"A">>>> \o b \o <<SEMICOLON>> :
        b \in LinesOver(ColonBodyTokens, MaxBody + 1)}
    \cup LinesOver(ColonLineTokens, MaxLine)
    \cup {<< <<"A">>, <<"B">>, <<"B">> >>}

InitColon == Start({2 * INT_BITS}, {ShallowFrames})

NextColon ==
    \/ (Within(MaxWords + 1, MaxBody + 1, MaxDepth) /\ ReadLine(ColonLines))
    \/ Quit
    \/ InterpretReturn
    \/ InterpretNumber
    \/ InterpretCompile
    \/ InterpretExecute
    \/ InterpretUnknown
    \/ ExecuteStep

SpecColon == InitColon /\ [][NextColon]_vars

\* a step of the process inside interpret: the process is not blocked, and
\* the scheduler lets it run
Run ==
    \/ InterpretReturn
    \/ InterpretNumber
    \/ InterpretCompile
    \/ InterpretExecute
    \/ InterpretUnknown
    \/ ExecuteStep

(***************************************************************************)
(* Lines that are finished or not.  A is defined with ":", "/" or A itself *)
(* as its body, or with none, and invoked with values on the stack and     *)
(* with a name after it.  The process is run whenever it can take a step.  *)
(***************************************************************************)
LineBodyTokens == {COLON, SLASH, <<"A">>}

LineLines ==
    {<<COLON, <<"A">>>> \o b \o <<SEMICOLON>> :
        b \in LinesOver(LineBodyTokens, MaxBody)}
    \cup {<< <<"A">>, <<"B">> >>, << <<"A">> >>, << <<"1">> >>, << <<"0">> >>}

InitLine == Start({2 * INT_BITS}, {ShallowFrames})

NextLine ==
    \/ (Within(MaxWords, MaxBody, MaxDepth + 1) /\ ReadLine(LineLines))
    \/ Quit
    \/ InterpretReturn
    \/ InterpretNumber
    \/ InterpretCompile
    \/ InterpretExecute
    \/ InterpretUnknown
    \/ ExecuteStep

SpecLine == InitLine /\ [][NextLine]_vars

LiveLine == SpecLine /\ WF_vars(Run)

(***************************************************************************)
(* Words that call themselves.  The native stack is shallow, or deep       *)
(* enough for the data stack to overflow first.                            *)
(***************************************************************************)
RecBodyTokens == {<<"F">>, <<"1">>, DROP, SLASH}

RecLines ==
    {<<COLON, <<"F">>>> \o b \o <<SEMICOLON>> :
        b \in LinesOver(RecBodyTokens, MaxBody + 1)}
    \cup {<< <<"F">> >>, << <<"1">> >>, << <<"0">> >>}

InitRec == Start({2 * INT_BITS}, {ShallowFrames, DeepFrames})

NextRec ==
    \/ (Within(MaxWords, MaxBody + 1, MaxDepth + 1) /\ ReadLine(RecLines))
    \/ Quit
    \/ InterpretReturn
    \/ InterpretNumber
    \/ InterpretCompile
    \/ InterpretExecute
    \/ ExecuteStep

SpecRec == InitRec /\ [][NextRec]_vars

(***************************************************************************)
(* Words named like numbers, and tokens that are nearly numbers.           *)
(***************************************************************************)
NumNames == {<<"5">>, <<"5","x">>, <<"-">>}

NumBodyTokens == {<<"5">>, <<"-">>}

NumLineTokens == {<<"5">>, <<"5","x">>, <<"-">>, <<"+","5">>}

NumLines ==
    {<<COLON, n>> \o b \o <<SEMICOLON>> :
        n \in NumNames, b \in LinesOver(NumBodyTokens, MaxBody)}
    \cup LinesOver(NumLineTokens, MaxLine)

InitNum == Start({2 * INT_BITS}, {ShallowFrames})

NextNum ==
    \/ (Within(MaxWords - 1, MaxBody, MaxDepth) /\ ReadLine(NumLines))
    \/ Quit
    \/ InterpretReturn
    \/ InterpretNumber
    \/ InterpretCompile
    \/ InterpretExecute
    \/ InterpretUnknown
    \/ ExecuteStep

SpecNum == InitNum /\ [][NextNum]_vars

(***************************************************************************)
(* The data stack near its two ends.  main is at the prompt after numbers  *)
(* were typed: none, or one fewer than the stack holds.  A line is read    *)
(* while the depth is within MaxDepth of one of these.                     *)
(***************************************************************************)
Ramp(d) == [i \in 1..d |-> ToInt(i)]

StackDepths == {0, STACK_SIZE - 1}

NearEnds == \E d \in StackDepths :
               Len(stack) - d <= MaxDepth /\ d - Len(stack) <= MaxDepth

StackTokens == {<<"1">>, <<"2">>, DOT, DROP, DUP}

InitStack == Started({Ramp(d) : d \in StackDepths}, LongWidths, {ShallowFrames})

NextStack ==
    \/ (NearEnds /\ ReadLine(LinesOver(StackTokens, MaxLine)))
    \/ Quit
    \/ InterpretReturn
    \/ InterpretNumber
    \/ InterpretExecute

SpecStack == InitStack /\ [][NextStack]_vars

(***************************************************************************)
(* What the claims speak of.                                               *)
(***************************************************************************)
NPrims == Len(Primitives)

SameName(a, b) ==
    /\ Len(a) = Len(b)
    /\ \A i \in 1..Len(a) : tolower(a[i]) = tolower(b[i])

\* entry k is the newest entry of the dictionary with this name
IsNewest(k, name) ==
    /\ k \in 1..Len(dictionary)
    /\ SameName(dictionary[k].name, name)
    /\ \A j \in (k + 1)..Len(dictionary) : ~SameName(dictionary[j].name, name)

Known(name) == \E k \in 1..Len(dictionary) : SameName(dictionary[k].name, name)

NewestOf(name) == CHOOSE k \in 1..Len(dictionary) : IsNewest(k, name)

\* interpret is about to read a token
AtToken == pc = "interpret" /\ frames = <<>> /\ input_ptr <= Len(input)

\* the entry has a compiled body
HasBody(k) == dictionary[k].code = "NULL" /\ ~dictionary[k].data.null

Body(k) == dictionary[k].data.items

\* the line was the single token t, and interpret has finished with it
Finished(t) ==
    pc = "interpret" /\ frames = <<>> /\ input = <<t>> /\ input_ptr = 2

(***************************************************************************)
(* C1.  Shadowing with early binding.  A token that is looked up resolves, *)
(* in any letter case, to the newest entry of its name: that entry is the  *)
(* one compiled or executed.  A word pointer in a compiled body refers to  *)
(* an entry that existed when the body was compiled, executing the body    *)
(* executes that very entry whatever has been defined since, and an entry  *)
(* with a body never changes.  So a word G whose body is a reference to an *)
(* entry F that pushes a literal still pushes that literal after F has     *)
(* been redefined, while the token F runs the newest F.                    *)
(***************************************************************************)
C1_Lookup ==
    (AtToken /\ ~IsNumber(Word0) /\ Known(Word0)) =>
        LET k == NewestOf(Word0)
        IN  IF compiling # 0 /\ dictionary[k].is_immediate = 0
            THEN compile_buffer'.items = Append(compile_buffer.items, WordPtr(k))
            ELSE HasBody(k) => frames' = <<[w |-> k, i |-> 0]>>

C1_Bound ==
    (pc = "interpret" /\ frames # <<>>) =>
        LET n == Len(frames)
            w == frames[n].w
            i == frames[n].i
        IN  (/\ i < dictionary[w].data_len
             /\ Body(w)[i + 1][1] = "ptr"
             /\ HasBody(Body(w)[i + 1][2])
             /\ n < native_frames)
            => frames' = Append([frames EXCEPT ![n].i = i + 1],
                                [w |-> Body(w)[i + 1][2], i |-> 0])

C1_Frozen ==
    \A k \in 1..Len(dictionary) :
        HasBody(k) => (Len(dictionary') >= k /\ dictionary'[k] = dictionary[k])

C1_Captured ==
    \A w \in 1..Len(dictionary) : \A i \in 1..Len(Body(w)) :
        Body(w)[i][1] = "ptr" => Body(w)[i][2] <= w

C1_Example ==
    \A t \in {<<"F">>, <<"f">>, <<"G">>, <<"g">>} :
        (Finished(t) /\ Known(t)) =>
            LET g == NewestOf(t)
            IN  /\ (HasBody(g) /\ Len(Body(g)) = 1 /\ LowBit(Body(g)[1]) = 1)
                      => (stack # <<>> /\ stack[Len(stack)] = ToInt(Body(g)[1][2] \div 2))
                /\ (/\ HasBody(g) /\ Len(Body(g)) = 1 /\ Body(g)[1][1] = "ptr"
                    /\ Body(g)[1][2] # g
                    /\ HasBody(Body(g)[1][2])
                    /\ Len(Body(Body(g)[1][2])) = 1
                    /\ LowBit(Body(Body(g)[1][2])[1]) = 1)
                      => (/\ stack # <<>>
                          /\ stack[Len(stack)] = ToInt(Body(Body(g)[1][2])[1][2] \div 2))

C1_Shadowing ==
    /\ [](C1_Captured /\ C1_Example)
    /\ [][C1_Lookup /\ C1_Bound /\ C1_Frozen]_vars

\* after ": F 1 ;", ": G F ;", ": F 2 ;" the line "G" has pushed 1
C1_Witness ==
    /\ Len(dictionary) = NPrims + 3
    /\ dictionary[NPrims + 1].name = <<"F">> /\ Body(NPrims + 1) = <<IntCell(3)>>
    /\ dictionary[NPrims + 2].name = <<"G">> /\ Body(NPrims + 2) = <<WordPtr(NPrims + 1)>>
    /\ dictionary[NPrims + 3].name = <<"F">> /\ Body(NPrims + 3) = <<IntCell(5)>>
    /\ Finished(<<"G">>)
    /\ stack = <<1>>

(***************************************************************************)
(* C2.  Whenever the token ";" is read while a definition is being         *)
(* compiled, the definition ends there: the state becomes Interactive, the *)
(* items buffered so far become the body of the entry being defined, the   *)
(* active target is cleared; and no compiled body or buffer ever holds a   *)
(* reference to a word named ";".                                          *)
(***************************************************************************)
C2_Ends ==
    (AtToken /\ Word0 = SEMICOLON /\ compiling # 0) =>
        /\ compiling' = 0
        /\ current_word' = 0
        /\ compile_buffer' = NULL
        /\ dictionary'[current_word].data = compile_buffer
        /\ dictionary'[current_word].data_len = compile_pos

C2_NeverCompiled ==
    /\ \A w \in 1..Len(dictionary) : \A i \in 1..Len(Body(w)) :
          Body(w)[i][1] = "ptr" => dictionary[Body(w)[i][2]].name # SEMICOLON
    /\ \A i \in 1..Len(compile_buffer.items) :
          compile_buffer.items[i][1] = "ptr"
              => dictionary[compile_buffer.items[i][2]].name # SEMICOLON

C2_SemicolonEnds == [](C2_NeverCompiled) /\ [][C2_Ends]_vars

(***************************************************************************)
(* C3.  An unknown token read while compiling aborts the definition: the   *)
(* token is reported, the state returns to Interactive, the buffer is      *)
(* discarded, and the half-built entry is absent or has an empty body.     *)
(***************************************************************************)
UnknownReport(word) == <<"Unknown word: %s\n", word>>

C3_Aborts ==
    (AtToken /\ ~IsNumber(Word0) /\ ~Known(Word0) /\ compiling # 0) =>
        /\ out' = Append(out, UnknownReport(Word0))
        /\ pc' = "prompt"
        /\ compiling' = 0
        /\ compile_buffer' = NULL
        /\ current_word' = 0
        /\ \/ Len(dictionary') < current_word
           \/ dictionary'[current_word].data.items = <<>>

C3_AbortDiscards == [][C3_Aborts]_vars

(***************************************************************************)
(* C6.  An unknown token read in Interactive state is reported, and        *)
(* interpret returns to main with the data stack, the dictionary and the   *)
(* compile state as they were before the token: what earlier tokens of the *)
(* line did is kept, no later token of the line is read.  The process goes *)
(* on: main reads the next line, and interpret starts at its first token   *)
(* from that same state.                                                   *)
(***************************************************************************)
Core == <<stack, dictionary, current_word, compiling, compile_buffer,
          compile_pos, compile_size, frames>>

C6_Reported ==
    (AtToken /\ ~IsNumber(Word0) /\ ~Known(Word0) /\ compiling = 0) =>
        /\ out' = Append(out, UnknownReport(Word0))
        /\ pc' = "prompt"
        /\ UNCHANGED Core

C6_LineAbandoned ==
    (pc = "prompt") =>
        /\ UNCHANGED Core
        /\ pc' \in {"prompt", "interpret", "done"}
        /\ pc' = "interpret" => (input_ptr' = 1 /\ out' = <<>>)

C6_UnknownRecovery == [][C6_Reported /\ C6_LineAbandoned]_vars

\* the line "G 7" in the initial dictionary: G is reported, 7 is not pushed
C6_Witness ==
    /\ pc = "prompt"
    /\ dictionary = init_forth
    /\ input = << <<"G">>, <<"7">> >>
    /\ input_ptr = 2
    /\ out = <<UnknownReport(<<"G">>)>>
    /\ stack = <<>>
    /\ compiling = 0

(***************************************************************************)
(* Lines typed at the prompt, for comparing what two inputs do from the    *)
(* same state: main hands the line to interpret, which runs until it       *)
(* returns to main or the process ends.  The output of the lines adds up.  *)
(***************************************************************************)
RECURSIVE RunInterpret(_)
RunInterpret(m) == IF m.pc # "interpret" THEN m ELSE RunInterpret(step(m))

TypeLine(m, line) ==
    IF m.pc # "prompt" THEN m
    ELSE RunInterpret([m EXCEPT !.input = line, !.input_ptr = 1,
                                !.pc = "interpret"])

RECURSIVE TypeLines(_, _)
TypeLines(m, lines) ==
    IF lines = <<>> THEN m
    ELSE TypeLines(TypeLine(m, Head(lines)), Tail(lines))

(***************************************************************************)
(* C4.  From any Interactive state at the prompt in which ":" and ";" are  *)
(* the defining words, a sequence of numbers and known words, none of them *)
(* W: typing ": W t1 ... tn ;" and then "W"                                *)
(* ends with the same data stack, the same output and the same state of    *)
(* the process (running, or ended by the same fatal error) as typing       *)
(* "t1 ... tn".                                                            *)
(***************************************************************************)
C4_Defining ==
    /\ dictionary[find_word(dictionary, COLON)].code = "colon"
    /\ dictionary[find_word(dictionary, SEMICOLON)].code = "semicolon"

C4_Items == {<<"7">>, <<"1">>, DUP, DOT, <<"+">>}

C4_Sequences == UNION {[1..k -> C4_Items] : k \in 1..2}

C4_Fresh == <<"W">>

C4_SameEffect(ts, g, tr) ==
    LET direct   == TypeLines(Machine(g, tr), <<ts>>)
        compiled == TypeLines(Machine(g, tr),
                              << <<COLON, C4_Fresh>> \o ts \o <<SEMICOLON>>,
                                 <<C4_Fresh>> >>)
    IN  /\ compiled.stack = direct.stack
        /\ compiled.out = direct.out
        /\ compiled.pc = direct.pc

C4_CompiledEquivalence ==
    (pc = "prompt" /\ compiling = 0 /\ C4_Defining /\ ~Known(C4_Fresh)) =>
        \A ts \in C4_Sequences : \A g \in Garbage : \A tr \in BOOLEAN :
            (\A i \in 1..Len(ts) : IsNumber(ts[i]) \/ Known(ts[i]))
                => C4_SameEffect(ts, g, tr)

(***************************************************************************)
(* C10.  A number token read while compiling is stored as a cell with the  *)
(* low bit set that decodes to the value the token pushes in Interactive   *)
(* state; running a body pushes exactly the decoded value of such a cell   *)
(* and dispatches the others; every cell of a body is one or the other.    *)
(***************************************************************************)
C10_Pushed(word) == ToInt(strtol(word, long_bits))

C10_Encoded ==
    (AtToken /\ IsNumber(Word0) /\ compiling # 0) =>
        /\ compile_pos' = compile_pos + 1
        /\ LET val == compile_buffer'.items[compile_pos']
           IN  /\ val[1] = "int"
               /\ LowBit(val) = 1
               /\ DecodeNumber(val) = C10_Pushed(Word0)

C10_Decoded ==
    (pc = "interpret" /\ frames # <<>>) =>
        LET n == Len(frames)
            w == frames[n].w
            i == frames[n].i
        IN  i < dictionary[w].data_len =>
                LET val == dictionary[w].data.items[i + 1]
                IN  IF val[1] = "int"
                    THEN /\ stack' = Append(stack, DecodeNumber(val))
                         /\ Len(frames') = n
                    ELSE stack' # Append(stack, val[2]) \/ Len(frames') # n

C10_Tagged ==
    \A w \in 1..Len(dictionary) : \A i \in 1..Len(Body(w)) :
        LowBit(Body(w)[i]) = 1 <=> Body(w)[i][1] = "int"

C10_LiteralRoundTrip == [](C10_Tagged) /\ [][C10_Encoded /\ C10_Decoded]_vars

(***************************************************************************)
(* C5.  A primitive invoked in Interactive state with fewer values on the  *)
(* data stack than it reads or consumes ends the process with the report   *)
(* "Stack underflow!", and pushes nothing.                                 *)
(***************************************************************************)
C5_Need(code) ==
    CASE code \in {"add", "sub", "mul", "divide", "mod", "swap", "over",
                   "eq", "lt", "gt", "and", "or"} -> 2
      [] code = "rot" -> 3
      [] code \in {"dup", "drop", "not", "emit", "dot"} -> 1
      [] OTHER -> 0

StackUnderflow == <<"Stack underflow!\n">>

StackOverflow == <<"Stack overflow!\n">>

C5_Checked ==
    (/\ AtToken /\ ~IsNumber(Word0) /\ Known(Word0) /\ compiling = 0
     /\ Len(stack) < C5_Need(dictionary[NewestOf(Word0)].code)) =>
        /\ pc' = "exited"
        /\ out' = Append(out, StackUnderflow)
        /\ Len(stack') <= Len(stack)

C5_UnderflowReported == [][C5_Checked]_vars

(***************************************************************************)
(* C9.  "/" or MOD invoked in Interactive state with a divisor of 0 on top *)
(* of a dividend: one report is written, which is neither the underflow    *)
(* nor the overflow report, and the stack is as it was or without the two  *)
(* operands: no result is pushed.                                          *)
(***************************************************************************)
C9_Reported ==
    (/\ AtToken /\ ~IsNumber(Word0) /\ Known(Word0) /\ compiling = 0
     /\ dictionary[NewestOf(Word0)].code \in {"divide", "mod"}
     /\ Len(stack) >= 2 /\ stack[Len(stack)] = 0) =>
        /\ Len(out') = Len(out) + 1
        /\ SubSeq(out', 1, Len(out)) = out
        /\ out'[Len(out')] \notin {StackUnderflow, StackOverflow}
        /\ stack' \in {stack, SubSeq(stack, 1, Len(stack) - 2)}

C9_DivideByZero == [][C9_Reported]_vars

(***************************************************************************)
(* C7.  The data stack is a LIFO of capacity 256.  The depth is between 0  *)
(* and 256 in every state.  A number typed in Interactive state is pushed  *)
(* on top, or with 256 values on the stack the process ends with "Stack    *)
(* overflow!" and the stack untouched; "." and DROP take the top value     *)
(* off, "." printing it, or on the empty stack the process ends with       *)
(* "Stack underflow!".  A pop after pushes returns the values in reverse   *)
(* order and leaves the stack as it was.                                   *)
(***************************************************************************)
C7_Depth == Len(stack) \in 0..STACK_SIZE

C7_Values == {1, INT_MIN}

C7_LIFO ==
    (pc = "interpret") =>
        \A a \in C7_Values : \A b \in C7_Values :
            LET m  == Machine(0, FALSE)
                p1 == pop(push(m, a))
                p2 == pop(push(push(m, a), b))
                p3 == pop(p2)
            IN  /\ Len(stack) < STACK_SIZE =>
                    (p1.ret = a /\ p1.stack = stack /\ Running(p1) /\ ~p1.ub)
                /\ Len(stack) < STACK_SIZE - 1 =>
                    (/\ p2.ret = b /\ p2.stack = Append(stack, a)
                     /\ p3.ret = a /\ p3.stack = stack /\ Running(p3))

C7_Ends ==
    (pc = "interpret") =>
        LET m == Machine(0, FALSE)
        IN  /\ Len(stack) = STACK_SIZE =>
                LET r == push(m, 1)
                IN  /\ r.pc = "exited" /\ r.stack = stack /\ ~r.ub
                    /\ r.out = Append(out, StackOverflow)
            /\ Len(stack) = 0 =>
                LET r == pop(m)
                IN  /\ r.pc = "exited" /\ r.stack = stack /\ ~r.ub
                    /\ r.out = Append(out, StackUnderflow)

C7_Push ==
    (AtToken /\ IsNumber(Word0) /\ compiling = 0) =>
        IF Len(stack) < STACK_SIZE
        THEN /\ stack' = Append(stack, ToInt(strtol(Word0, long_bits)))
             /\ pc' = "interpret" /\ out' = out
        ELSE /\ stack' = stack
             /\ pc' = "exited" /\ out' = Append(out, StackOverflow)

C7_Pop ==
    (/\ AtToken /\ ~IsNumber(Word0) /\ Known(Word0) /\ compiling = 0
     /\ dictionary[NewestOf(Word0)].code \in {"dot", "drop"}) =>
        IF Len(stack) > 0
        THEN /\ stack' = SubSeq(stack, 1, Len(stack) - 1)
             /\ pc' = "interpret"
             /\ out' = IF dictionary[NewestOf(Word0)].code = "dot"
                       THEN Append(out, <<"%d ", stack[Len(stack)]>>)
                       ELSE out
        ELSE /\ stack' = stack
             /\ pc' = "exited" /\ out' = Append(out, StackUnderflow)

C7_BoundedLIFO ==
    /\ [](C7_Depth /\ C7_LIFO /\ C7_Ends)
    /\ [][C7_Push /\ C7_Pop]_vars

\* "1 2" filled the stack to its capacity, and ". ." has printed 2 then 1
C7_Witness ==
    /\ input = <<DOT, DOT>>
    /\ input_ptr = 3
    /\ pc = "interpret"
    /\ out = << <<"%d ", 2>>, <<"%d ", 1>> >>
    /\ stack = Ramp(STACK_SIZE - 2)

(***************************************************************************)
(* C8.  DUP followed by DROP, for every depth from 1 to 255: the stack,    *)
(* the output and the state of the process are as before the pair; with    *)
(* 256 values on the stack DUP ends the process with "Stack overflow!".    *)
(***************************************************************************)
C8_Pair(lo, hi) ==
    (pc = "interpret" /\ Len(stack) \in lo..hi) =>
        \A g \in Garbage : \A tr \in BOOLEAN :
            LET r == drop(dup(Machine(g, tr)))
            IN  /\ r.stack = stack
                /\ r.out = out
                /\ Running(r)
                /\ ~r.ub

C8_Full ==
    (pc = "interpret" /\ Len(stack) = STACK_SIZE) =>
        LET r == drop(dup(Machine(0, FALSE)))
        IN  /\ r.pc = "exited"
            /\ r.stack = stack
            /\ r.out = Append(out, StackOverflow)

C8_Typed ==
    (/\ Len(input) = 2 /\ input[1] = DUP /\ input[2] = DROP
     /\ input_ptr = 3 /\ pc = "interpret") =>
        /\ out = <<>>
        /\ Len(stack) < STACK_SIZE

C8_DupDropBelowCapacity == C8_Pair(1, STACK_SIZE - 1) /\ C8_Full /\ C8_Typed

\* C8 as stated: the pair completes at every depth from 1 to 256
C8_DupDropAnyDepth == C8_Pair(1, STACK_SIZE)

\* the line "DUP DROP" has run on a stack of 255 values
C8_Witness ==
    /\ input = <<DUP, DROP>>
    /\ input_ptr = 3
    /\ pc = "interpret"
    /\ out = <<>>
    /\ stack = Ramp(STACK_SIZE - 1)

(***************************************************************************)
(* C11.  When ":" executes with no token left on the line, typed directly  *)
(* or reached in the body of a compiled word: the missing name is          *)
(* reported, no entry is added, the compile state is as it was; and from   *)
(* the report until main reads the next line, neither the data stack nor   *)
(* the dictionary changes.                                                 *)
(***************************************************************************)
MissingName == <<"Error: expected word name after ':'\n">>

\* the cell execute_word is about to run, in the innermost body
CellNext == dictionary[frames[Len(frames)].w].data.items[frames[Len(frames)].i + 1]

InBody ==
    /\ pc = "interpret" /\ frames # <<>>
    /\ frames[Len(frames)].i < dictionary[frames[Len(frames)].w].data_len

C11_ColonTyped ==
    /\ AtToken /\ ~IsNumber(Word0) /\ Known(Word0) /\ compiling = 0
    /\ dictionary[NewestOf(Word0)].code = "colon"
    /\ input_ptr = Len(input)

C11_ColonInBody ==
    /\ InBody
    /\ CellNext[1] = "ptr" /\ dictionary[CellNext[2]].code = "colon"
    /\ input_ptr > Len(input)

C11_Reported ==
    (C11_ColonTyped \/ C11_ColonInBody) =>
        /\ out' = Append(out, MissingName)
        /\ dictionary' = dictionary
        /\ stack' = stack
        /\ UNCHANGED <<compiling, current_word, compile_buffer>>

C11_Abandoned ==
    (pc = "interpret" /\ \E i \in 1..Len(out) : out[i] = MissingName) =>
        /\ stack' = stack
        /\ dictionary' = dictionary

C11_MissingName == [][C11_Reported /\ C11_Abandoned]_vars

(***************************************************************************)
(* C12.  Inside a definition of N the token N is compiled as a pointer to  *)
(* the entry being defined.  While a word whose body holds a pointer to    *)
(* itself is being executed, it does not return: each step leaves it in    *)
(* execution, or ends the process with the overflow or underflow report,   *)
(* or with the native stack exhausted.                                     *)
(***************************************************************************)
SelfRef(w) == \E i \in 1..Len(Body(w)) : Body(w)[i] = WordPtr(w)

C12_Resolves ==
    (/\ AtToken /\ ~IsNumber(Word0) /\ compiling # 0 /\ current_word # 0
     /\ SameName(Word0, dictionary[current_word].name)) =>
        /\ compile_buffer'.items = Append(compile_buffer.items, WordPtr(current_word))
        /\ dictionary' = dictionary

C12_NoReturn ==
    (pc = "interpret" /\ \E k \in 1..Len(frames) : SelfRef(frames[k].w)) =>
        LET k == CHOOSE j \in 1..Len(frames) :
                    /\ SelfRef(frames[j].w)
                    /\ \A h \in 1..(j - 1) : ~SelfRef(frames[h].w)
        IN  \/ pc' = "interpret" /\ Len(frames') >= k /\ frames'[k].w = frames[k].w
            \/ pc' = "exited" /\ out' \in {Append(out, StackOverflow),
                                           Append(out, StackUnderflow)}
            \/ pc' = "killed" /\ Len(frames) >= native_frames

C12_SelfReference == [][C12_Resolves /\ C12_NoReturn]_vars

(***************************************************************************)
(* C13.  No entry has both a primitive and a compiled body.  No step       *)
(* removes an entry or changes the name, the immediate flag or the         *)
(* primitive of one; and an entry that has a body attached is the same     *)
(* after every step, in its body and its length too.                       *)
(***************************************************************************)
C13_Exclusive ==
    \A k \in 1..Len(dictionary) :
        ~(dictionary[k].code # "NULL" /\ ~dictionary[k].data.null)

C13_Kept ==
    /\ Len(dictionary') >= Len(dictionary)
    /\ \A k \in 1..Len(dictionary) :
          /\ dictionary'[k].name = dictionary[k].name
          /\ dictionary'[k].is_immediate = dictionary[k].is_immediate
          /\ dictionary'[k].code = dictionary[k].code
          /\ ~dictionary[k].data.null => dictionary'[k] = dictionary[k]

C13_AppendOnly == [](C13_Exclusive) /\ [][C13_Kept]_vars

\* F was defined with a body of one item, and its redefinition was aborted
\* by the unknown token G
C13_Witness ==
    /\ Len(dictionary) = NPrims + 2
    /\ dictionary[NPrims + 1].name = <<"F">>
    /\ dictionary[NPrims + 2].name = <<"F">>
    /\ HasBody(NPrims + 1) /\ Len(Body(NPrims + 1)) = 1
    /\ HasBody(NPrims + 2) /\ Body(NPrims + 2) = <<>>
    /\ compiling = 0
    /\ pc = "prompt"
    /\ out = <<UnknownReport(<<"G">>)>>

(***************************************************************************)
(* C14.  "=", "<" and ">" invoked in Interactive state with a below b on   *)
(* top of the stack replace the two by -1 when the relation holds between  *)
(* a and b and by 0 when it does not, for all ints a and b; nothing is     *)
(* written and the depth is one less.                                      *)
(***************************************************************************)
C14_Flag(code, a, b) ==
    IF \/ code = "eq" /\ a = b
       \/ code = "lt" /\ a < b
       \/ code = "gt" /\ a > b
    THEN -1 ELSE 0

C14_Compared ==
    (/\ AtToken /\ ~IsNumber(Word0) /\ Known(Word0) /\ compiling = 0
     /\ dictionary[NewestOf(Word0)].code \in {"eq", "lt", "gt"}
     /\ Len(stack) >= 2) =>
        LET n == Len(stack)
        IN  /\ stack' = Append(SubSeq(stack, 1, n - 2),
                               C14_Flag(dictionary[NewestOf(Word0)].code,
                                        stack[n - 1], stack[n]))
            /\ Len(stack') = n - 1
            /\ pc' = "interpret"
            /\ out' = out

C14_AllInts ==
    (pc = "interpret" /\ Len(stack) <= STACK_SIZE - 2) =>
        \A a \in INT_MIN..INT_MAX : \A b \in INT_MIN..INT_MAX :
            LET m == push(push(Machine(0, FALSE), a), b)
            IN  /\ eq(m).stack = Append(stack, C14_Flag("eq", a, b))
                /\ lt(m).stack = Append(stack, C14_Flag("lt", a, b))
                /\ gt(m).stack = Append(stack, C14_Flag("gt", a, b))
                /\ Running(eq(m)) /\ Running(lt(m)) /\ Running(gt(m))

C14_BooleanEncoding == [](C14_AllInts) /\ [][C14_Compared]_vars

\* "0 <" typed with a negative number on the stack has left -1
C14_Witness ==
    /\ input = << <<"0">>, <<"<">> >>
    /\ input_ptr = 3
    /\ pc = "interpret"
    /\ stack = <<-1>>

(***************************************************************************)
(* C15.  A token that is a decimal integer (an optional sign, then digits  *)
(* only, at least one) is pushed in Interactive state and appended as a    *)
(* literal cell while compiling, whatever the dictionary holds: it is not  *)
(* looked up and no word is run.  Every other token is looked up: it is    *)
(* reported as unknown, or the newest word of that name is compiled or     *)
(* executed.                                                               *)
(***************************************************************************)
C15_Decimal(word) ==
    LET ds == IF word[1] \in {"+", "-"} THEN Tail(word) ELSE word
    IN  /\ ds # <<>>
        /\ \A i \in 1..Len(ds) :
              ds[i] \in {"0", "1", "2", "3", "4", "5", "6", "7", "8", "9"}

C15_AsNumber ==
    (AtToken /\ C15_Decimal(Word0)) =>
        /\ dictionary' = dictionary
        /\ frames' = <<>>
        /\ pc' = "interpret"
        /\ IF compiling = 0
           THEN stack' = Append(stack, ToInt(strtol(Word0, long_bits)))
           ELSE /\ stack' = stack
                /\ Len(compile_buffer'.items) = Len(compile_buffer.items) + 1
                /\ compile_buffer'.items[compile_pos'][1] = "int"

C15_Executed(w) ==
    \E g \in Garbage : \E tr \in BOOLEAN :
        LET r == execute_word([Machine(g, tr) EXCEPT !.input_ptr = @ + 1], w)
        IN  /\ stack' = r.stack /\ dictionary' = r.dictionary
            /\ frames' = r.frames /\ pc' = r.pc /\ out' = r.out

C15_AsWord ==
    (AtToken /\ ~C15_Decimal(Word0)) =>
        IF ~Known(Word0)
        THEN /\ out' = Append(out, UnknownReport(Word0))
             /\ pc' = "prompt"
             /\ stack' = stack
        ELSE IF compiling # 0 /\ dictionary[NewestOf(Word0)].is_immediate = 0
        THEN /\ compile_buffer'.items =
                    Append(compile_buffer.items, WordPtr(NewestOf(Word0)))
             /\ stack' = stack
        ELSE C15_Executed(NewestOf(Word0))

C15_NumbersFirst == [][C15_AsNumber /\ C15_AsWord]_vars

\* a word named 5 is defined, and the line "5" has pushed 5
C15_Witness ==
    /\ Len(dictionary) = NPrims + 1
    /\ dictionary[NPrims + 1].name = <<"5">>
    /\ HasBody(NPrims + 1) /\ Len(Body(NPrims + 1)) = 1
    /\ input = << <<"5">> >>
    /\ input_ptr = 2
    /\ stack = <<5>>

(***************************************************************************)
(* C16.  When interpret reaches the end of a line while compiling, and     *)
(* while main waits for and reads the next line, the compile state, the    *)
(* entry being defined, the buffer, the stack and the dictionary are kept. *)
(* From a prompt in Interactive state where ":" and ";" are the defining   *)
(* words and W is new: the tokens of ": W t1 ... tn ;" typed on two lines, *)
(* split anywhere after W, leave the same entry W as typed on one line,    *)
(* and the same dictionary, stack and compile state when every ti is a     *)
(* number or a known word.                                                 *)
(***************************************************************************)
C16_LineEnds ==
    (pc = "interpret" /\ frames = <<>> /\ input_ptr > Len(input)) =>
        /\ pc' = "prompt"
        /\ UNCHANGED Core

C16_NextLine == (pc = "prompt") => UNCHANGED Core

C16_Items == {<<"7">>, <<"F">>, COLON}

C16_Sequences == UNION {[1..k -> C16_Items] : k \in 0..2}

C16_Split(ts, k) ==
    << <<COLON, C4_Fresh>> \o SubSeq(ts, 1, k),
       SubSeq(ts, k + 1, Len(ts)) \o <<SEMICOLON>> >>

C16_SameEntry ==
    (pc = "prompt" /\ compiling = 0 /\ C4_Defining /\ ~Known(C4_Fresh)) =>
        \A ts \in C16_Sequences : \A k \in 0..Len(ts) :
            LET m     == Machine(0, FALSE)
                one   == TypeLines(m, << <<COLON, C4_Fresh>> \o ts \o <<SEMICOLON>> >>)
                two   == TypeLines(m, C16_Split(ts, k))
            IN  /\ two.dictionary[Len(dictionary) + 1]
                       = one.dictionary[Len(dictionary) + 1]
                /\ (\A i \in 1..Len(ts) : IsNumber(ts[i]) \/ Known(ts[i])) =>
                      /\ two.dictionary = one.dictionary
                      /\ two.stack = one.stack
                      /\ two.compiling = one.compiling
                      /\ two.current_word = one.current_word
                      /\ two.compile_buffer = one.compile_buffer
                      /\ two.pc = one.pc

C16_SpanningLines ==
    /\ [](C16_SameEntry)
    /\ [][C16_LineEnds /\ C16_NextLine]_vars

\* ": F" was typed on one line and "7 ;" on the next
C16_Witness ==
    /\ input = << <<"7">>, SEMICOLON >>
    /\ input_ptr = 3
    /\ pc = "prompt"
    /\ compiling = 0
    /\ Len(dictionary) = NPrims + 1
    /\ dictionary[NPrims + 1].name = <<"F">>
    /\ HasBody(NPrims + 1)
    /\ dictionary[NPrims + 1].data_len = 1
    /\ Body(NPrims + 1)[1][1] = "int"

(***************************************************************************)
(* C17.  A token read while compiling leaves the data stack and the        *)
(* return stack as they were and starts no compiled word.  A number adds   *)
(* one literal cell to the buffer; a word that is not immediate, ":"       *)
(* included, adds one pointer to it to the buffer, and the dictionary, the *)
(* entry being defined, the state and the output stay as they were.        *)
(***************************************************************************)
C17_Appended(val) ==
    /\ compile_buffer'.items = Append(compile_buffer.items, val)
    /\ compile_pos' = compile_pos + 1
    /\ dictionary' = dictionary
    /\ compiling' = compiling
    /\ current_word' = current_word
    /\ out' = out
    /\ pc' = "interpret"

C17_Frame ==
    (AtToken /\ compiling # 0) =>
        /\ stack' = stack
        /\ rstack' = rstack
        /\ frames' = <<>>
        /\ IsNumber(Word0) =>
              C17_Appended(TagNumber(strtol(Word0, long_bits), long_bits))
        /\ (/\ ~IsNumber(Word0) /\ Known(Word0)
            /\ dictionary[NewestOf(Word0)].is_immediate = 0) =>
              C17_Appended(WordPtr(NewestOf(Word0)))

C17_CompilingFrame == [][C17_Frame]_vars

\* ": F" was typed, and then ":" on the next line
C17_Witness ==
    /\ input = <<COLON>>
    /\ input_ptr = 2
    /\ compiling = 1
    /\ Len(dictionary) = NPrims + 1
    /\ current_word = NPrims + 1
    /\ compile_buffer.items = <<WordPtr(NewestOf(COLON))>>
    /\ dictionary[NewestOf(COLON)].code = "colon"

(***************************************************************************)
(* C18.  Whenever interpret or main is between tokens: compiling is set    *)
(* exactly when there is an entry being defined, and exactly when there is *)
(* a buffer.  When set, the entry being defined is the newest entry and    *)
(* has no body, and the buffer's position is its number of items and at    *)
(* most its size; when clear, position and size are 0.                     *)
(***************************************************************************)
C18_Consistent ==
    (pc \in {"prompt", "interpret"} /\ frames = <<>>) =>
        /\ compiling # 0 <=> current_word # 0
        /\ compiling # 0 <=> ~compile_buffer.null
        /\ compiling # 0 =>
              /\ current_word = Len(dictionary)
              /\ dictionary[current_word].code = "NULL"
              /\ dictionary[current_word].data.null
              /\ dictionary[current_word].data_len = 0
              /\ compile_pos = Len(compile_buffer.items)
              /\ compile_pos <= compile_size
        /\ compiling = 0 => (compile_pos = 0 /\ compile_size = 0)

\* A, whose body is ": :", has run on the line "A B B": B is defined twice
\* and the second B is being compiled
C18_Witness ==
    /\ input = << <<"A">>, <<"B">>, <<"B">> >>
    /\ input_ptr = 4
    /\ pc = "prompt"
    /\ Len(dictionary) = NPrims + 3
    /\ Body(NPrims + 1) = <<WordPtr(NewestOf(COLON)), WordPtr(NewestOf(COLON))>>
    /\ compiling = 1
    /\ current_word = NPrims + 3

(***************************************************************************)
(* C19.  Every word pointer in a body points to the entry that holds the   *)
(* body or to an older entry, and every word pointer in the buffer to the  *)
(* entry being defined or to an older one.  No two different entries reach *)
(* each other through the pointers of their bodies.                        *)
(***************************************************************************)
Refs(w) == {Body(w)[i][2] : i \in {j \in 1..Len(Body(w)) : Body(w)[j][1] = "ptr"}}

RECURSIVE Reach(_, _)
\* the entries reached from those of S through at most n pointers
Reach(S, n) ==
    IF n = 0 THEN S ELSE Reach(S \cup UNION {Refs(w) : w \in S}, n - 1)

C19_Backward ==
    /\ \A w \in 1..Len(dictionary) : \A t \in Refs(w) : t \in 1..w
    /\ \A i \in 1..Len(compile_buffer.items) :
          compile_buffer.items[i][1] = "ptr" =>
              /\ compile_buffer.items[i][2] \in 1..Len(dictionary)
              /\ current_word # 0 => compile_buffer.items[i][2] <= current_word

\* the primitives have no body: a path between two entries has at most as
\* many pointers as there are entries after them
C19_NoMutual ==
    LET Defined == (NPrims + 1)..Len(dictionary)
    IN  \A v \in Defined : \A w \in Defined :
            (v # w /\ w \in Reach({v}, Len(dictionary) - NPrims))
                => v \notin Reach({w}, Len(dictionary) - NPrims)

C19_Acyclic == C19_Backward /\ C19_NoMutual

\* G calls itself, and F, defined after it, calls G
C19_Witness ==
    /\ Len(dictionary) = NPrims + 2
    /\ dictionary[NPrims + 1].name = <<"G">>
    /\ Body(NPrims + 1) = <<WordPtr(NPrims + 1)>>
    /\ Body(NPrims + 2) = <<WordPtr(NPrims + 1)>>
    /\ compiling = 0

(***************************************************************************)
(* C20.  A line being interpreted is finished, with interpret returning to *)
(* main or the process ended by a stack report, unless a word is invoked   *)
(* that reaches a word whose body points to itself.  Each step at a token  *)
(* moves past that token only, or past the token and the name after it     *)
(* when the token is ":" executed with a name left on the line; the name   *)
(* becomes the name of the new entry and is not interpreted.  Inside a     *)
(* body only ":" moves on the line, by the one name it takes.              *)
(***************************************************************************)
C20_SelfRefInvoked ==
    \E k \in 1..Len(frames) :
        \E w \in Reach({frames[k].w}, Len(dictionary) - NPrims) : SelfRef(w)

C20_ColonTakesName ==
    /\ ~IsNumber(Word0) /\ Known(Word0) /\ compiling = 0
    /\ dictionary[NewestOf(Word0)].code = "colon"
    /\ input_ptr < Len(input)

C20_AtToken ==
    AtToken =>
        /\ input' = input
        /\ IF C20_ColonTakesName
           THEN /\ input_ptr' = input_ptr + 2
                /\ dictionary' = Append(dictionary,
                                        Word(input[input_ptr + 1], "NULL", 0))
                /\ stack' = stack /\ frames' = <<>> /\ out' = out
           ELSE input_ptr' = input_ptr + 1

C20_InBody ==
    (pc = "interpret" /\ frames # <<>>) =>
        /\ input' = input
        /\ IF /\ InBody /\ CellNext[1] = "ptr"
              /\ dictionary[CellNext[2]].code = "colon"
              /\ input_ptr <= Len(input)
              /\ Len(frames) < native_frames
           THEN /\ input_ptr' = input_ptr + 1
                /\ dictionary' = Append(dictionary,
                                        Word(input[input_ptr], "NULL", 0))
           ELSE input_ptr' = input_ptr

C20_StackReport ==
    pc = "exited" /\ out # <<>> /\ out[Len(out)] \in {StackOverflow, StackUnderflow}

C20_Finishes ==
    (pc = "interpret") ~> (pc = "prompt" \/ C20_StackReport \/ C20_SelfRefInvoked)

C20_Termination == C20_Finishes /\ [][C20_AtToken /\ C20_InBody]_vars

=============================================================================
